---- MODULE Spec2Model ----
(***************************************************************************)
(* mini-server (src/main.rs): a hyper/tokio HTTP file server.  `main`      *)
(* resolves the port and binds, `handle` routes every request to           *)
(* `index_view` or `file_view` and then writes the access log line.        *)
(*                                                                         *)
(* Text is modelled as a sequence of one-character strings, so that        *)
(* contains / ends_with / to_lowercase / parse are computed character by   *)
(* character.  Header values are sequences of byte values (0..255).        *)
(***************************************************************************)
EXTENDS Integers, Sequences, FiniteSets, TLC

VARIABLES
    envPort,    \* the PORT environment variable as env::var sees it
    mainPc,     \* position of main: "start", "bind", "serving"
    port,       \* main's local `port`
    bindAddr,   \* the SocketAddr handed to Server::bind
    fs,         \* entries of the working directory, by name
    cwd,        \* how reading the working directory itself behaves
    pending,    \* requests sent by clients and not yet accepted
    req,        \* per accepted request: the state of its `handle` future
    mimeIn,     \* argument of a direct mime_type call
    mimeOut     \* its result

vars == <<envPort, mainPc, port, bindAddr, fs, cwd, pending, req, mimeIn, mimeOut>>

----------------------------------------------------------------------------
(* Bounds of the model *)

\* longest generated request path candidate (the text after the leading '/')
MaxCandLen == 3
\* number of requests in flight together
MaxReqs == 2
\* longest generated PORT value
MaxPortLen == 3
\* longest generated stem in front of a suffix given to mime_type
MaxStemLen == 2

----------------------------------------------------------------------------
(* Text helpers: str::contains, str::ends_with, String::to_lowercase *)

\* all sequences over S of length 0..n
RECURSIVE SeqsUpTo(_, _)
SeqsUpTo(S, n) ==
    IF n = 0 THEN {<<>>}
    ELSE LET shorter == SeqsUpTo(S, n - 1)
         IN  shorter \cup {Append(s, c) : s \in {t \in shorter : Len(t) = n - 1}, c \in S}

\* str::contains(pat) for a non-empty pattern
contains(s, pat) ==
    \E i \in 1..(Len(s) - Len(pat) + 1) : SubSeq(s, i, i + Len(pat) - 1) = pat

\* str::ends_with(suffix)
ends_with(s, suffix) ==
    /\ Len(suffix) <= Len(s)
    /\ SubSeq(s, Len(s) - Len(suffix) + 1, Len(s)) = suffix

UpperLetters == <<"A","B","C","D","E","F","G","H","I","J","K","L","M",
                  "N","O","P","Q","R","S","T","U","V","W","X","Y","Z">>
LowerLetters == <<"a","b","c","d","e","f","g","h","i","j","k","l","m",
                  "n","o","p","q","r","s","t","u","v","w","x","y","z">>

char_to_lowercase(c) ==
    IF \E i \in 1..Len(UpperLetters) : UpperLetters[i] = c
    THEN LowerLetters[CHOOSE i \in 1..Len(UpperLetters) : UpperLetters[i] = c]
    ELSE c

char_to_uppercase(c) ==
    IF \E i \in 1..Len(LowerLetters) : LowerLetters[i] = c
    THEN UpperLetters[CHOOSE i \in 1..Len(LowerLetters) : LowerLetters[i] = c]
    ELSE c

\* String::to_lowercase on ASCII text
to_lowercase(s) == [i \in 1..Len(s) |-> char_to_lowercase(s[i])]

\* chars.next(); chars.as_str(): the text without its first character
\* (the empty text stays empty)
drop_first(s) == IF Len(s) = 0 THEN <<>> ELSE Tail(s)

DotDot == <<".", ".">>

----------------------------------------------------------------------------
(* mime_type (lines 108-123) *)

\* a resolver that skips the to_lowercase of line 109
mime_type_case_sensitive(path) ==
    LET p == path
    IN  IF ends_with(p, <<"h","t","m","l">>) THEN "text/html"
        ELSE IF ends_with(p, <<"h","t","m">>) THEN "text/html"
        ELSE IF ends_with(p, <<"t","x","t">>) THEN "text/plain"
        ELSE IF ends_with(p, <<"w","a","s","m">>) THEN "application/wasm"
        ELSE IF ends_with(p, <<"j","s">>) THEN "text/javascript"
        ELSE "application/octet-stream"

\* lines 108-123
mime_type(path) ==
    LET p == to_lowercase(path)
    IN  IF ends_with(p, <<"h","t","m","l">>) THEN "text/html"
        ELSE IF ends_with(p, <<"h","t","m">>) THEN "text/html"
        ELSE IF ends_with(p, <<"t","x","t">>) THEN "text/plain"
        ELSE IF ends_with(p, <<"w","a","s","m">>) THEN "application/wasm"
        ELSE IF ends_with(p, <<"j","s">>) THEN "text/javascript"
        ELSE "application/octet-stream"

----------------------------------------------------------------------------
(* Port resolution in main (lines 153-160) *)

DefaultPort == 3000
U16Max == 65535

Digits == <<"0","1","2","3","4","5","6","7","8","9">>
IsDigit(c) == \E i \in 1..10 : Digits[i] = c
DigitVal(c) == (CHOOSE i \in 1..10 : Digits[i] = c) - 1

ParseErr == [ok |-> FALSE, val |-> 0]
ParseOk(n) == [ok |-> TRUE, val |-> n]

\* the digit loop of u16::from_str: checked_mul(10) then checked_add(digit)
RECURSIVE parse_digits(_, _)
parse_digits(s, acc) ==
    IF Len(s) = 0 THEN ParseOk(acc)
    ELSE IF ~IsDigit(Head(s)) THEN ParseErr
    ELSE IF acc * 10 > U16Max THEN ParseErr
    ELSE IF acc * 10 + DigitVal(Head(s)) > U16Max THEN ParseErr
    ELSE parse_digits(Tail(s), acc * 10 + DigitVal(Head(s)))

\* a parse whose digit loop wraps at 2^16 in place of failing
parse_u16_wrapping(s) ==
    LET RECURSIVE wrap(_, _)
        wrap(t, acc) ==
            IF Len(t) = 0 THEN ParseOk(acc)
            ELSE IF ~IsDigit(Head(t)) THEN ParseErr
            ELSE wrap(Tail(t), (acc * 10 + DigitVal(Head(t))) % (U16Max + 1))
    IN  IF Len(s) = 0 THEN ParseErr
        ELSE IF s = <<"+">> \/ s = <<"-">> THEN ParseErr
        ELSE IF Head(s) = "+" THEN wrap(Tail(s), 0)
        ELSE wrap(s, 0)

\* str::parse::<u16>(): empty fails, a lone sign fails, one leading '+' is
\* accepted, '-' is not a digit of an unsigned type
parse_u16(s) ==
    IF Len(s) = 0 THEN ParseErr
    ELSE IF s = <<"+">> \/ s = <<"-">> THEN ParseErr
    ELSE IF Head(s) = "+" THEN parse_digits(Tail(s), 0)
    ELSE parse_digits(s, 0)

\* env::var("PORT"): Err when unset or not unicode, Ok(text) otherwise
Unset == [set |-> FALSE, unicode |-> TRUE, text |-> <<>>]
NotUnicode == [set |-> TRUE, unicode |-> FALSE, text |-> <<>>]
SetTo(s) == [set |-> TRUE, unicode |-> TRUE, text |-> s]

\* lines 153-156
checked_port(e) ==
    IF e.set /\ e.unicode THEN parse_u16(e.text) ELSE ParseOk(DefaultPort)

\* lines 157-160
resolve_port(e) ==
    IF checked_port(e).ok THEN checked_port(e).val ELSE DefaultPort

----------------------------------------------------------------------------
(* Response builders (lines 9-28, 100-106) *)

NoResponse == [status |-> 0, headers |-> <<>>, body |-> <<>>]

\* lines 9-14
not_found == [status |-> 404, headers |-> <<>>, body |-> <<"not found\r\n">>]

\* lines 16-21
forbidden == [status |-> 403, headers |-> <<>>, body |-> <<"forbidden\r\n">>]

\* lines 23-28
trouble == [status |-> 500, headers |-> <<>>, body |-> <<"sad bear is sad\r\n">>]

\* a builder that derives the content type from the bytes, not the path
file_response_sniffing(path, contents) ==
    [status |-> 200,
     headers |-> << <<"Content-type", mime_type(contents)>> >>,
     body |-> contents]

\* lines 100-106
file_response(path, contents) ==
    [status |-> 200,
     headers |-> << <<"Content-type", mime_type(path)>> >>,
     body |-> contents]

----------------------------------------------------------------------------
(* The file system as tokio::fs sees it.  The working directory holds the  *)
(* names FsNameSet, each absent, a regular file or a (sub)directory.  A    *)
(* path is resolved component by component as open(2) does.  Nothing       *)
(* outside the working directory is named by the request paths of the      *)
(* model: the root directory and the subdirectories are directories that   *)
(* hold none of those names.  On the Unix targets of std::fs, File::open   *)
(* succeeds on a directory (O_RDONLY) and the read then fails with EISDIR. *)

NameJs == <<"a", ".", "J", "S">>
NameA == <<"a">>
NameDots == <<".", ".", "a">>

FsNameSet == {NameJs, NameA, NameDots}

\* the orders in which read_dir may yield the names: the code fixes none
DirOrders ==
    {o \in [1..Cardinality(FsNameSet) -> FsNameSet] :
        \A i, j \in 1..Cardinality(FsNameSet) : i # j => o[i] # o[j]}

Missing ==
    [kind |-> "missing", perm |-> FALSE, readOk |-> FALSE, metaOk |-> FALSE,
     utf8 |-> TRUE, bytes |-> <<>>]
FileEntry(perm, readOk, metaOk, utf8, bytes) ==
    [kind |-> "file", perm |-> perm, readOk |-> readOk, metaOk |-> metaOk,
     utf8 |-> utf8, bytes |-> bytes]
DirEntry(perm, metaOk, utf8) ==
    [kind |-> "dir", perm |-> perm, readOk |-> FALSE, metaOk |-> metaOk,
     utf8 |-> utf8, bytes |-> <<>>]

\* the text cut at every "/", empty components dropped
RECURSIVE split(_, _)
split(text, cur) ==
    IF Len(text) = 0 THEN (IF Len(cur) = 0 THEN <<>> ELSE <<cur>>)
    ELSE IF Head(text) = "/"
         THEN (IF Len(cur) = 0 THEN <<>> ELSE <<cur>>) \o split(Tail(text), <<>>)
         ELSE split(Tail(text), Append(cur, Head(text)))

\* the components path resolution walks: a trailing "/" asks for a directory,
\* as a final "." does
components(text) ==
    IF text[Len(text)] = "/" THEN Append(split(text, <<>>), <<".">>) ELSE split(text, <<>>)

\* a place reached by the walk: the working directory, the root, an entry
WorkDir == [at |-> "cwd", e |-> DirEntry(cwd.openOk, TRUE, TRUE)]
RootDir == [at |-> "root", e |-> DirEntry(TRUE, TRUE, TRUE)]
Nowhere == [at |-> "none", e |-> Missing]

\* a directory the walk may pass through: the server runs in its working
\* directory, so that one can be searched; an entry's perm stands for the
\* read and the search permission alike
searchable(n) == n.e.kind = "dir" /\ (n.at \in {"cwd", "root"} \/ n.e.perm)

\* one component further; an entry whose on-disk name is not valid unicode
\* is not named by any &str
walk_one(n, comp) ==
    IF ~searchable(n) THEN Nowhere
    ELSE IF comp = <<".">> THEN n
    ELSE IF n.at = "cwd" /\ comp \in FsNameSet /\ fs[comp].utf8
         THEN [at |-> "entry", e |-> fs[comp]]
    ELSE Nowhere

RECURSIVE walk(_, _)
walk(n, comps) ==
    IF Len(comps) = 0 THEN n ELSE walk(walk_one(n, Head(comps)), Tail(comps))

\* what the path text resolves to, for a path without ".." (line 86): the
\* empty path names nothing, a leading "/" starts at the root
lookup(text) ==
    IF Len(text) = 0 THEN Missing
    ELSE walk(IF Head(text) = "/" THEN RootDir ELSE WorkDir, components(text)).e

NoFile == [open |-> FALSE, name |-> <<>>]

\* File::open(path).await (line 86)
file_open(path) ==
    LET e == lookup(path)
    IN  IF e.kind # "missing" /\ e.perm
        THEN [ok |-> TRUE, file |-> [open |-> TRUE, name |-> path]]
        ELSE [ok |-> FALSE, file |-> NoFile]

\* file.read_to_end(&mut contents).await (line 89)
read_to_end(file) ==
    LET e == lookup(file.name)
    IN  IF e.kind = "file" /\ e.readOk
        THEN [ok |-> TRUE, contents |-> e.bytes]
        ELSE [ok |-> FALSE, contents |-> <<>>]

\* a read arm that keeps the handle when the read fails
file_after_read_leaking(file, ok) == IF ok THEN NoFile ELSE file

\* the arm `Ok(mut file) => { ... }` ends: file is dropped (lines 87-96)
file_after_read(file, ok) == NoFile

\* a check that sees ".." only at the start of the path
has_dots_prefix_only(path) == Len(path) >= 2 /\ SubSeq(path, 1, 2) = DotDot

\* path.contains("..") (line 83)
has_dots(path) == contains(path, DotDot)

----------------------------------------------------------------------------
(* Directory lister and index page (lines 30-75) *)

\* the entries fs::read_dir(".") yields, in the order this directory has
listing == SelectSeq(cwd.order, LAMBDA n : fs[n].kind # "missing")

\* the loop body of files once entry.metadata().await is back (lines 35-43):
\* the names after the entry `name`
push_entry(file_names, name) ==
    IF fs[name].metaOk
    THEN IF fs[name].kind = "file"
         THEN IF fs[name].utf8 THEN Append(file_names, name) ELSE file_names
         ELSE file_names
    ELSE file_names

\* line 42
diagnostic(name) == <<"diag", "Couldn't get file type for", name>>

IndexHead ==
    "\n<!DOCTYPE html>\n<html lang=\"en\">\n  <head>\n    <meta charset=\"UTF-8\">\n    <title>index</title>\n  </head>\n  <body>\n    <h3>Welcome</h3>\n<ul>\n"
IndexTail == "</ul></body></html>"

\* line 65
chunk(fname) == <<"<li><a href=\"">> \o fname \o <<"\">">> \o fname \o <<"</a></li>">>

RECURSIVE chunks(_)
chunks(fnames) ==
    IF Len(fnames) = 0 THEN <<>> ELSE chunk(Head(fnames)) \o chunks(Tail(fnames))

FilesErr == [ok |-> FALSE, names |-> <<>>]
FilesOk(names) == [ok |-> TRUE, names |-> names]

\* a view that reports a failed listing as 500
index_view_partial(result) ==
    [status |-> IF result.ok THEN 200 ELSE 500,
     headers |-> << <<"Content-type", "text/html">> >>,
     body |-> <<IndexHead>> \o chunks(result.names) \o <<IndexTail>>]

\* index_view once files(".") has produced `result` (lines 63-74)
index_view(result) ==
    [status |-> 200,
     headers |-> << <<"Content-type", "text/html">> >>,
     body |-> <<IndexHead>>
              \o (IF result.ok THEN chunks(result.names) ELSE <<>>)
              \o <<IndexTail>>]

----------------------------------------------------------------------------
(* Requests and the handler's logging (lines 130-148) *)

NoAgent == [present |-> FALSE, value |-> <<>>]
Agent(bytes) == [present |-> TRUE, value |-> bytes]

\* HeaderValue::to_str: Ok only if every byte is visible ASCII or a tab
to_str_ok(value) ==
    \A i \in 1..Len(value) : (value[i] >= 32 /\ value[i] < 127) \/ value[i] = 9

Dash == <<45>>

\* a request target as hyper parses it into a Uri: scheme and authority
\* (empty when absent), the path text and the query
NoQuery == [present |-> FALSE, text |-> <<>>]
Query(t) == [present |-> TRUE, text |-> t]
OriginForm(path, query) ==
    [scheme |-> <<>>, authority |-> <<>>, path |-> path, query |-> query]
AbsoluteForm(scheme, authority, path, query) ==
    [scheme |-> scheme, authority |-> authority, path |-> path, query |-> query]
AuthorityForm(authority) ==
    [scheme |-> <<>>, authority |-> authority, path |-> <<>>, query |-> NoQuery]
AsteriskForm == OriginForm(<<"*">>, NoQuery)

\* req.uri().path() (lines 78, 126): the path text, "/" for an absolute
\* target without one, empty for an authority target
uri_path(u) ==
    IF Len(u.path) = 0 /\ Len(u.scheme) > 0 THEN <<"/">> ELSE u.path

\* req.uri() as println! displays it (line 139)
uri_display(u) ==
    (IF Len(u.scheme) > 0 THEN u.scheme \o <<":", "/", "/">> ELSE <<>>)
    \o u.authority
    \o uri_path(u)
    \o (IF u.query.present THEN <<"?">> \o u.query.text ELSE <<>>)

\* response.status() as println! displays it (line 140): the code and its
\* canonical reason.  It is defined for the four statuses that the response
\* constructors of lines 9-28, 70-74 and 100-106 set, the only ones handle
\* prints, and for no other.
status_display(status) ==
    <<status,
      CASE status = 200 -> "OK"
        [] status = 403 -> "Forbidden"
        [] status = 404 -> "Not Found"
        [] status = 500 -> "Internal Server Error">>

\* the line println! writes (lines 136-144), without its timestamp
access_line(h) ==
    <<"access", uri_display(h.uri), status_display(h.response.status), h.method,
      h.version, IF h.ua.present THEN h.ua.value ELSE Dash>>

Request(uri, ua) ==
    [uri |-> uri, method |-> "GET", version |-> "HTTP/1.1", ua |-> ua]

\* the state of one `handle(req)` future; path is req.uri().path()
NewHandler(q) ==
    [pc |-> "route", uri |-> q.uri, path |-> uri_path(q.uri), method |-> q.method,
     version |-> q.version, ua |-> q.ua, candidate |-> <<>>, file |-> NoFile,
     names |-> <<>>, cursor |-> 0, entry |-> <<>>, response |-> NoResponse,
     out |-> <<>>]

Handlers == DOMAIN req

----------------------------------------------------------------------------
(* main (lines 151-174) *)

Loopback == <<127, 0, 0, 1>>
NoAddr == [ip |-> <<>>, port |-> 0]

\* lines 153-160
ResolvePort ==
    /\ mainPc = "start"
    /\ port' = resolve_port(envPort)
    /\ mainPc' = "bind"
    /\ UNCHANGED <<envPort, bindAddr, fs, cwd, pending, req, mimeIn, mimeOut>>

\* lines 165-169
Bind ==
    /\ mainPc = "bind"
    /\ bindAddr' = [ip |-> Loopback, port |-> port]
    /\ mainPc' = "serving"
    /\ UNCHANGED <<envPort, port, fs, cwd, pending, req, mimeIn, mimeOut>>

\* hyper calls handle(req) for a request that has arrived (line 167).  The
\* order in which requests are taken up and the interleaving of the handlers
\* are hyper's and tokio's: every order and every interleaving is allowed,
\* those that serve the requests one after the other included.
Accept ==
    /\ mainPc = "serving"
    /\ \E i \in 1..Len(pending) :
          /\ req' = Append(req, NewHandler(pending[i]))
          /\ pending' = SubSeq(pending, 1, i - 1) \o SubSeq(pending, i + 1, Len(pending))
    /\ UNCHANGED <<envPort, mainPc, port, bindAddr, fs, cwd, mimeIn, mimeOut>>

----------------------------------------------------------------------------
(* handle, file_view, index_view, files: one action per await point *)

\* handle's match (lines 126-129) and file_view up to File::open (lines 78-86)
Route(r) ==
    /\ req[r].pc = "route"
    /\ req' = [req EXCEPT ![r] =
          IF req[r].path = <<"/">>
          THEN [@ EXCEPT !.pc = "readdir"]
          ELSE LET path == drop_first(req[r].path)
               IN  IF has_dots(path)
                   THEN [@ EXCEPT !.candidate = path, !.response = forbidden, !.pc = "log"]
                   ELSE [@ EXCEPT !.candidate = path, !.pc = "open"]]
    /\ UNCHANGED <<envPort, mainPc, port, bindAddr, fs, cwd, pending, mimeIn, mimeOut>>

\* File::open(path).await completes (lines 86, 94)
Open(r) ==
    /\ req[r].pc = "open"
    /\ LET res == file_open(req[r].candidate)
       IN  req' = [req EXCEPT ![r] =
              IF res.ok
              THEN [@ EXCEPT !.file = res.file, !.pc = "read"]
              ELSE [@ EXCEPT !.response = not_found, !.pc = "log"]]
    /\ UNCHANGED <<envPort, mainPc, port, bindAddr, fs, cwd, pending, mimeIn, mimeOut>>

\* file.read_to_end(..).await completes; the arm ends and drops file (lines 88-96)
Read(r) ==
    /\ req[r].pc = "read"
    /\ LET res == read_to_end(req[r].file)
       IN  req' = [req EXCEPT ![r] =
              [@ EXCEPT !.response = IF res.ok
                                     THEN file_response(req[r].candidate, res.contents)
                                     ELSE trouble,
                        !.file = file_after_read(req[r].file, res.ok),
                        !.pc = "log"]]
    /\ UNCHANGED <<envPort, mainPc, port, bindAddr, fs, cwd, pending, mimeIn, mimeOut>>

\* fs::read_dir(path).await? completes (lines 31-32)
ReadDir(r) ==
    /\ req[r].pc = "readdir"
    /\ req' = [req EXCEPT ![r] =
          IF cwd.openOk
          THEN [@ EXCEPT !.names = <<>>, !.cursor = 0, !.pc = "entry"]
          ELSE [@ EXCEPT !.response = index_view(FilesErr), !.pc = "log"]]
    /\ UNCHANGED <<envPort, mainPc, port, bindAddr, fs, cwd, pending, mimeIn, mimeOut>>

\* entries.next_entry().await? completes (lines 34, 46)
NextEntry(r) ==
    /\ req[r].pc = "entry"
    /\ LET k == req[r].cursor + 1
       IN  req' = [req EXCEPT ![r] =
              IF cwd.failAt = k
              THEN [@ EXCEPT !.response = index_view(FilesErr), !.pc = "log"]
              ELSE IF k > Len(listing)
              THEN [@ EXCEPT !.response = index_view(FilesOk(req[r].names)), !.pc = "log"]
              ELSE [@ EXCEPT !.entry = listing[k], !.cursor = k, !.pc = "metadata"]]
    /\ UNCHANGED <<envPort, mainPc, port, bindAddr, fs, cwd, pending, mimeIn, mimeOut>>

\* entry.metadata().await completes, then the rest of the loop body (lines 35-43)
Metadata(r) ==
    /\ req[r].pc = "metadata"
    /\ req' = [req EXCEPT ![r] =
          [@ EXCEPT !.names = push_entry(req[r].names, req[r].entry),
                    !.out = IF fs[req[r].entry].metaOk
                            THEN req[r].out
                            ELSE Append(req[r].out, diagnostic(req[r].entry)),
                    !.pc = "entry"]]
    /\ UNCHANGED <<envPort, mainPc, port, bindAddr, fs, cwd, pending, mimeIn, mimeOut>>

\* the logging part of handle and its return (lines 131-147):
\* agent.to_str().unwrap() panics on a value that is not visible ASCII
Log(r) ==
    /\ req[r].pc = "log"
    /\ req' = [req EXCEPT ![r] =
          IF req[r].ua.present /\ ~to_str_ok(req[r].ua.value)
          THEN [@ EXCEPT !.pc = "panicked"]
          ELSE [@ EXCEPT !.out = Append(req[r].out, access_line(req[r])), !.pc = "done"]]
    /\ UNCHANGED <<envPort, mainPc, port, bindAddr, fs, cwd, pending, mimeIn, mimeOut>>

Next ==
    \/ ResolvePort
    \/ Bind
    \/ Accept
    \/ \E r \in Handlers : Route(r)
    \/ \E r \in Handlers : Open(r)
    \/ \E r \in Handlers : Read(r)
    \/ \E r \in Handlers : ReadDir(r)
    \/ \E r \in Handlers : NextEntry(r)
    \/ \E r \in Handlers : Metadata(r)
    \/ \E r \in Handlers : Log(r)

\* a direct call of mime_type
CallMime ==
    /\ mimeOut = ""
    /\ mimeOut' = mime_type(mimeIn)
    /\ UNCHANGED <<envPort, mainPc, port, bindAddr, fs, cwd, pending, req, mimeIn>>

NextMime == CallMime

----------------------------------------------------------------------------
(* Initial states: the environment the process starts in *)

\* a working directory that reads without error, in any order
CleanCwds == {[openOk |-> TRUE, failAt |-> 0, order |-> o] : o \in DirOrders}

HtmlBytes == <<"<", "h", "t", "m", "l", ">">>

\* outcomes of open and read for one name
FileEntries ==
    {Missing, DirEntry(TRUE, TRUE, TRUE), DirEntry(FALSE, TRUE, TRUE)}
    \cup {FileEntry(TRUE, TRUE, TRUE, TRUE, b) : b \in {<<>>, HtmlBytes}}
    \cup {FileEntry(TRUE, FALSE, TRUE, TRUE, b) : b \in {<<>>, HtmlBytes}}
    \cup {FileEntry(FALSE, TRUE, TRUE, TRUE, b) : b \in {<<>>, HtmlBytes}}

\* the entry named "..a" is never opened: it is present or not
DotsEntries == {Missing, DirEntry(TRUE, TRUE, TRUE), FileEntry(TRUE, TRUE, TRUE, TRUE, HtmlBytes)}

\* outcomes of metadata and file_name for one name
ListedEntries ==
    {Missing}
    \cup {FileEntry(TRUE, TRUE, m, u, HtmlBytes) : m \in BOOLEAN, u \in BOOLEAN}
    \cup {DirEntry(TRUE, m, TRUE) : m \in BOOLEAN}

PathChars == {".", "a", "/"}

\* request targets as hyper hands them to handle: a path that starts with
\* "/", with or without a query, "*", an authority, or an absolute URI
Uris ==
    {OriginForm(<<"/">> \o c, NoQuery) : c \in SeqsUpTo(PathChars, MaxCandLen) \cup FsNameSet}
    \cup {OriginForm(<<"/">> \o NameDots \o <<"/">> \o NameJs, NoQuery),
          OriginForm(<<"/">> \o NameJs, Query(<<"x", "=", "1">>)),
          OriginForm(<<"/">> \o NameA, Query(DotDot)),
          OriginForm(<<"/">>, Query(<<>>)),
          OriginForm(<<"/", ".", "/">> \o NameJs, NoQuery),
          OriginForm(<<"/">> \o NameA \o <<"/">> \o NameJs, NoQuery),
          OriginForm(<<"/">> \o NameJs \o <<"/">>, NoQuery),
          OriginForm(<<"/", "/">> \o NameJs, NoQuery),
          AsteriskForm,
          AuthorityForm(<<"a", ":", "8", "0">>),
          AbsoluteForm(<<"h","t","t","p">>, <<"a">>, <<>>, NoQuery),
          AbsoluteForm(<<"h","t","t","p">>, <<"a">>, <<"/">> \o NameJs, NoQuery)}

Agents == {NoAgent, Agent(<<>>), Agent(<<99, 117, 114, 108>>), Agent(<<99, 255>>)}

InitMain(e) ==
    /\ envPort = e
    /\ mainPc = "start"
    /\ port = 0
    /\ bindAddr = NoAddr
    /\ req = <<>>
    /\ mimeIn = <<>>
    /\ mimeOut = ""

\* one request against every file-system outcome of open and read
Init ==
    /\ InitMain(Unset)
    /\ fs \in {[n \in FsNameSet |-> IF n = NameJs THEN j ELSE IF n = NameA THEN a ELSE d]
                 : j \in FileEntries, a \in FileEntries, d \in DotsEntries}
    /\ cwd \in CleanCwds
    /\ pending \in {<<Request(u, a)>> : u \in Uris, a \in Agents}

Spec == Init /\ [][Next]_vars

\* the index page while reading the directory fails or a file's metadata does
InitIndex ==
    /\ InitMain(Unset)
    /\ fs \in [FsNameSet -> ListedEntries]
    /\ cwd \in {[openOk |-> FALSE, failAt |-> 0, order |-> o] : o \in DirOrders}
               \cup {[openOk |-> TRUE, failAt |-> k, order |-> o]
                        : k \in 0..(Cardinality(FsNameSet) + 1), o \in DirOrders}
    /\ pending \in {<<Request(OriginForm(p, NoQuery), NoAgent)>>
                        : p \in {<<"/">>, <<"/">> \o NameJs, <<"/">> \o NameA}}

SpecIndex == InitIndex /\ [][Next]_vars

\* two working directories that between them show every outcome of file_view
ConcFs1 ==
    [n \in FsNameSet |->
        IF n = NameJs THEN FileEntry(TRUE, TRUE, TRUE, TRUE, HtmlBytes)
        ELSE IF n = NameA THEN DirEntry(TRUE, TRUE, TRUE)
        ELSE Missing]
ConcFs2 ==
    [n \in FsNameSet |->
        IF n = NameJs THEN FileEntry(TRUE, FALSE, TRUE, TRUE, HtmlBytes)
        ELSE IF n = NameA THEN FileEntry(FALSE, TRUE, TRUE, TRUE, <<>>)
        ELSE FileEntry(TRUE, TRUE, TRUE, TRUE, <<>>)]

ConcRequests ==
    {Request(OriginForm(<<"/">>, NoQuery), NoAgent),
     Request(OriginForm(<<"/">> \o NameJs, Query(<<"x">>)), Agent(<<99, 117, 114, 108>>)),
     Request(OriginForm(<<"/">> \o NameA, NoQuery), NoAgent),
     Request(OriginForm(<<"/", "a", "a">>, NoQuery), NoAgent),
     Request(OriginForm(<<"/", "a", ".", ".">>, NoQuery), Agent(<<99, 255>>))}

\* all sequences over S of length exactly n
SeqsOfLen(S, n) == {s \in SeqsUpTo(S, n) : Len(s) = n}

\* MaxReqs requests in flight together
InitConc ==
    /\ InitMain(Unset)
    /\ fs \in {ConcFs1, ConcFs2}
    /\ cwd \in CleanCwds \cup {[openOk |-> TRUE, failAt |-> 2, order |-> o] : o \in DirOrders}
    /\ pending \in SeqsOfLen(ConcRequests, MaxReqs)

SpecConc == InitConc /\ [][Next]_vars

PortChars == {"0", "1", "9", "a", "+", "-", " "}

PortTexts ==
    SeqsUpTo(PortChars, MaxPortLen)
    \cup {<<"3","0","0","0">>, <<"8","0","8","0">>, <<"a","b","c">>,
          <<"6","5","5","3","5">>, <<"6","5","5","3","6">>, <<"7","0","0","0","0">>,
          <<"9","9","9","9","9","9">>, <<"+","6","5","5","3","5">>,
          <<"0","0","6","5","5","3","5">>, <<"6","5","5","3","a">>,
          <<"1","3","1","0","7","2">>}

\* startup under every value of PORT
InitPort ==
    /\ \E e \in {Unset, NotUnicode} \cup {SetTo(t) : t \in PortTexts} : InitMain(e)
    /\ fs = ConcFs1
    /\ cwd \in CleanCwds
    /\ pending \in {<<Request(OriginForm(p, NoQuery), NoAgent)>>
                        : p \in {<<"/">>, <<"/">> \o NameJs}}

SpecPort == InitPort /\ [][Next]_vars

to_uppercase(s) == [i \in 1..Len(s) |-> char_to_uppercase(s[i])]

\* p with the letters at the positions in S in upper case
CaseMix(p, S) == [i \in 1..Len(p) |-> IF i \in S THEN char_to_uppercase(p[i]) ELSE p[i]]

MimeExts ==
    {<<>>, <<"h","t","m","l">>, <<"h","t","m">>, <<"t","x","t">>, <<"w","a","s","m">>,
     <<"j","s">>, <<"p","d","f">>, <<"h","t">>, <<"t","m","l">>, <<"h","t","m","l","x">>,
     <<"j","s","x">>, <<"a","s","m">>, <<"j","s","/">>, <<"t","x","t","1">>}

MimeInputs ==
    UNION {{CaseMix(stem \o ext, S) : S \in SUBSET (1..Len(stem \o ext))}
             : stem \in SeqsUpTo({"a", "."}, MaxStemLen), ext \in MimeExts}

InitMime ==
    /\ envPort = Unset
    /\ mainPc = "start"
    /\ port = 0
    /\ bindAddr = NoAddr
    /\ fs = ConcFs1
    /\ cwd \in CleanCwds
    /\ pending = <<>>
    /\ req = <<>>
    /\ mimeIn \in MimeInputs
    /\ mimeOut = ""

SpecMime == InitMime /\ [][NextMime]_vars

----------------------------------------------------------------------------
(* Properties *)

\* the handler has computed its response (handle is past line 129)
Computed == {"log", "done", "panicked"}

\* what the request path names once its first character is dropped
target(h) == lookup(drop_first(h.path))

\* C1: a request path that contains ".." anywhere gets 403 "forbidden\r\n",
\* whatever the working directory holds, and its handler never opens a file
\* or reads the directory
C1_DotDotForbidden ==
    \A r \in Handlers :
        contains(req[r].path, DotDot) =>
            /\ req[r].pc \notin {"open", "read", "readdir", "entry", "metadata"}
            /\ ~req[r].file.open
            /\ req[r].pc \in Computed => req[r].response = forbidden

\* "/..a" was answered 403 although a regular file "..a" exists
C1_Witness ==
    \E r \in Handlers :
        /\ req[r].pc = "done"
        /\ req[r].path = <<"/">> \o NameDots
        /\ fs[NameDots].kind = "file"
        /\ req[r].response = forbidden

\* C2 as claimed: a path other than "/" without ".." that names no existing
\* regular file gets 404 "not found\r\n"
C2_NoFileNotFound ==
    \A r \in Handlers :
        (/\ req[r].pc \in Computed
         /\ req[r].path # <<"/">>
         /\ ~contains(req[r].path, DotDot)
         /\ target(req[r]).kind # "file")
        => req[r].response = not_found

\* C3 as claimed: for a path that names a directory the open fails, the read
\* is never reached and the status is 404
C3_DirectoryNotFound ==
    \A r \in Handlers :
        (/\ req[r].path # <<"/">>
         /\ ~contains(req[r].path, DotDot)
         /\ target(req[r]).kind = "dir")
        => /\ req[r].pc # "read"
           /\ req[r].pc \in Computed => req[r].response.status = 404

\* C4: "/X" without "..", X an existing readable regular file, gets status
\* 200, X's bytes as the body and Content-type mime_type(X)
C4_FileRoundTrip ==
    \A r \in Handlers :
        (/\ req[r].pc \in Computed
         /\ Len(req[r].path) >= 2
         /\ req[r].path[1] = "/"
         /\ ~contains(req[r].path, DotDot)
         /\ target(req[r]).kind = "file"
         /\ target(req[r]).perm
         /\ target(req[r]).readOk)
        => /\ req[r].response.status = 200
           /\ req[r].response.body = target(req[r]).bytes
           /\ req[r].response.headers =
                  << <<"Content-type", mime_type(Tail(req[r].path))>> >>

\* "/./a.JS", whose bytes look like HTML, was served as text/javascript
C4_Witness ==
    \E r \in Handlers :
        /\ req[r].pc = "done"
        /\ req[r].path = <<"/", ".", "/">> \o NameJs
        /\ req[r].response.status = 200
        /\ req[r].response.body = HtmlBytes
        /\ req[r].response.headers = << <<"Content-type", "text/javascript">> >>

\* the listing fails: read_dir fails or some next_entry call does
ListingFails == ~cwd.openOk \/ cwd.failAt \in 1..(Len(listing) + 1)

\* the names files(".") returns when nothing fails
ListedNames ==
    SelectSeq(listing, LAMBDA n : fs[n].metaOk /\ fs[n].kind = "file" /\ fs[n].utf8)

\* C5: "/" always gets 200 text/html; the page lists the regular files, and
\* no file at all when reading the directory fails, even part-way
C5_IndexAlways200 ==
    \A r \in Handlers :
        (req[r].path = <<"/">> /\ req[r].pc \in Computed) =>
            /\ req[r].response.status = 200
            /\ req[r].response.headers = << <<"Content-type", "text/html">> >>
            /\ req[r].response.body =
                  <<IndexHead>>
                  \o (IF ListingFails THEN <<>> ELSE chunks(ListedNames))
                  \o <<IndexTail>>

\* the directory yields "..a" first; the second next_entry call failed after
\* "..a" had been collected, and the page came back with an empty list
C5_Witness ==
    \E r \in Handlers :
        /\ req[r].pc = "done"
        /\ req[r].path = <<"/">>
        /\ cwd.openOk /\ cwd.failAt = 2
        /\ cwd.order[1] = NameDots
        /\ fs[NameDots].kind = "file" /\ fs[NameDots].metaOk /\ fs[NameDots].utf8
        /\ req[r].response.status = 200
        /\ req[r].response.body = <<IndexHead, IndexTail>>

AccessLines(h) == SelectSeq(h.out, LAMBDA l : l[1] = "access")

\* C6 as claimed: every handler that ends returns its response, having
\* written one access line whose user-agent is the header value, or "-" when
\* the header is missing or is not text
C6_LoggingNeverFails ==
    \A r \in Handlers :
        /\ req[r].pc # "panicked"
        /\ req[r].pc = "done" =>
              /\ Len(AccessLines(req[r])) = 1
              /\ AccessLines(req[r])[1][6] =
                    IF req[r].ua.present /\ to_str_ok(req[r].ua.value)
                    THEN req[r].ua.value
                    ELSE Dash

MimeTable ==
    << <<<<"h","t","m","l">>, "text/html">>,
       <<<<"h","t","m">>, "text/html">>,
       <<<<"t","x","t">>, "text/plain">>,
       <<<<"w","a","s","m">>, "application/wasm">>,
       <<<<"j","s">>, "text/javascript">> >>

\* the rows of the table whose suffix ends the lowercased path
MimeHits(path) ==
    {i \in 1..Len(MimeTable) : ends_with(to_lowercase(path), MimeTable[i][1])}

\* C7: mime_type's result is the type of every table row whose suffix ends
\* the lowercased path (so the order of the tests cannot matter), it is
\* application/octet-stream when no row matches, and the path in lower case
\* and in upper case get the same result
C7_MimeBySuffix ==
    mimeOut # "" =>
        /\ \A i \in MimeHits(mimeIn) : mimeOut = MimeTable[i][2]
        /\ MimeHits(mimeIn) = {} => mimeOut = "application/octet-stream"
        /\ mime_type(to_lowercase(mimeIn)) = mimeOut
        /\ mime_type(to_uppercase(mimeIn)) = mimeOut

\* "a.HtMl" resolved to text/html
C7_Witness ==
    /\ mimeIn = <<"a", ".", "H", "t", "M", "l">>
    /\ mimeOut = "text/html"

RECURSIVE Power10(_)
Power10(n) == IF n = 0 THEN 1 ELSE 10 * Power10(n - 1)

RECURSIVE DecimalValue(_)
DecimalValue(d) ==
    IF Len(d) = 0 THEN 0
    ELSE DigitVal(Head(d)) * Power10(Len(d) - 1) + DecimalValue(Tail(d))

Unsigned(s) == IF Len(s) > 0 /\ Head(s) = "+" THEN Tail(s) ELSE s

\* s writes an unsigned 16-bit integer: digits, after at most one '+'
IsU16Text(s) ==
    /\ Len(Unsigned(s)) > 0
    /\ \A i \in 1..Len(Unsigned(s)) : IsDigit(Unsigned(s)[i])
    /\ DecimalValue(Unsigned(s)) <= U16Max

\* C8: the server binds 127.0.0.1:n when PORT writes the unsigned 16-bit
\* integer n, and 127.0.0.1:3000 when PORT is unset or writes no such number
C8_PortResolution ==
    mainPc = "serving" =>
        /\ bindAddr.ip = Loopback
        /\ bindAddr.port =
              IF envPort.set /\ envPort.unicode /\ IsU16Text(envPort.text)
              THEN DecimalValue(Unsigned(envPort.text))
              ELSE DefaultPort

\* PORT=999999 ended in a bind of port 3000
C8_Witness ==
    /\ mainPc = "serving"
    /\ envPort = SetTo(<<"9","9","9","9","9","9">>)
    /\ bindAddr = [ip |-> Loopback, port |-> DefaultPort]

\* C10: a handler holds a file handle only between a successful open and the
\* end of the read, for its own path, which has no ".."; once the response
\* is computed, on the 200 and on the 500 path alike, the handle is released
C10_HandleScoped ==
    \A r \in Handlers :
        /\ req[r].file.open =>
              /\ req[r].pc = "read"
              /\ req[r].file.name = req[r].candidate
              /\ ~contains(req[r].path, DotDot)
              /\ file_open(req[r].candidate).ok
        /\ req[r].pc \in Computed => ~req[r].file.open

\* one request ended 500 after a failed read and holds nothing, while
\* another request holds its handle
C10_Witness ==
    \E r, q \in Handlers :
        /\ req[r].pc = "done"
        /\ req[r].response = trouble
        /\ ~req[r].file.open
        /\ req[q].file.open

====
